---- MODULE Spec2Model ----
(***************************************************************************)
(* A model of the Virtual Courier Archive (virtual_courier.py, run.py,     *)
(* slackless.py): the text normalizer, the filename deduplicator, the      *)
(* history fetcher, the message parser, and the archive run with its       *)
(* staging directories.                                                    *)
(*                                                                         *)
(* Python str values are sequences of characters; a character is a TLA+    *)
(* string ("a", "<", and "U+2019" for the one character U+2019).  A Python *)
(* value that may be None is a record: Str(s) or None.                     *)
(***************************************************************************)
EXTENDS Naturals, Integers, Sequences, FiniteSets, TLC

VARIABLES
    pc,                 \* position of the operation a specification drives
    text,               \* _normalize_text: the text argument
    possible_user_id,   \* _normalize_text: the flag argument
    members,            \* self.members: user id -> display name
    normalized,         \* _normalize_text: the value returned
    raw_files,          \* _parse_message: the part of message["files"] not yet read
    files,              \* _parse_message: the attachments parsed so far
    last_call,          \* unique_filename: the arguments and result of the last call
    pages,              \* the platform: the history pages of the channel, in order
    requests,           \* the platform: the cursor of each conversations_history call
    response,           \* _get_channel_history: the page last received
    response_parent,    \* _get_channel_history: the first page, which accumulates
    raw_history,        \* self._raw_history
    profiles,           \* the platform: what users_info answers for each user
    messages,           \* self.messages
    raised,             \* the exception that ended the operation ("" for none)
    fs_dirs,            \* the file system: the directories (paths)
    fs_files,           \* the file system: path -> content of each file
    fs_before,          \* the file system as the last cleanup found it
    history_of,         \* the platform: channel id -> the records of its history
    trigger,            \* run -> the event or the command line that started it
    run_pc,             \* run -> the step of the pipeline it is at
    arch,               \* run -> the fields of its VirtualCourierArchive
    posted,             \* run -> what it has sent to the channel, in order
    rendered,           \* run -> the body of the document make_pdf rendered, and
                        \*        the staged images that were readable when it did
    interference        \* <<actor, op, owner>>: a run touched a file another wrote

textVars == <<text, possible_user_id, normalized>>
dedupVars == <<raw_files, files, last_call>>
fetchVars == <<pages, requests, response, response_parent>>
parseVars == <<profiles, messages>>
fsVars == <<fs_dirs, fs_files, fs_before>>
runVars == <<history_of, trigger, run_pc, arch, posted, rendered, interference>>
vars == <<pc, raised, members, raw_history, textVars, dedupVars, fetchVars, parseVars,
          fsVars, runVars>>

----------------------------------------------------------------------------
(* Bounds *)

\* Texts handed to the normalizer are built of at most MaxPieces pieces.
MaxPieces == 3

\* A raw message record carries at most MaxFiles files.
MaxFiles == 3

\* The platform serves a channel's history in at most MaxPages pages of at
\* most MaxPageSize records each.
\* A channel history read by the parser holds at most MaxRecords records.
MaxRecords == 3

MaxPages == 3
MaxPageSize == 2

----------------------------------------------------------------------------
(* Python values *)

None == [type |-> "NoneType", value |-> <<>>]
Str(s) == [type |-> "str", value |-> s]

\* str(v), as an f-string formats v
Format(v) == IF v = None THEN <<"N", "o", "n", "e">> ELSE v.value

\* The concatenation of a sequence of sequences.
RECURSIVE Flatten(_)
Flatten(ss) == IF ss = <<>> THEN <<>> ELSE Head(ss) \o Flatten(Tail(ss))

RSQUO == "U+2019"
ELLIPSIS == "U+2026"

\* [a-zA-Z0-9]
Alnum ==
    {"a","b","c","d","e","f","g","h","i","j","k","l","m","n","o","p","q","r",
     "s","t","u","v","w","x","y","z",
     "A","B","C","D","E","F","G","H","I","J","K","L","M","N","O","P","Q","R",
     "S","T","U","V","W","X","Y","Z",
     "0","1","2","3","4","5","6","7","8","9"}

\* s[i:] begins with old (i is 1-based)
StartsAt(s, old, i) ==
    /\ i + Len(old) - 1 <= Len(s)
    /\ \A k \in 1..Len(old) : s[i + k - 1] = old[k]

\* str.replace(old, new) for a non-empty old: every non-overlapping
\* occurrence, scanning left to right.
RECURSIVE ReplaceFrom(_, _, _, _)
ReplaceFrom(s, old, new, i) ==
    IF i > Len(s) THEN <<>>
    ELSE IF StartsAt(s, old, i)
         THEN new \o ReplaceFrom(s, old, new, i + Len(old))
         ELSE <<s[i]>> \o ReplaceFrom(s, old, new, i + 1)

Replace(s, old, new) == ReplaceFrom(s, old, new, 1)

----------------------------------------------------------------------------
(* re.search(r"<@[a-zA-Z0-9]*>", text) *)

\* The end of the match that starts at i, or 0 when none starts there: "<",
\* "@", the longest run of [a-zA-Z0-9], then ">".
MatchEnd(s, i) ==
    IF i + 1 <= Len(s) /\ s[i] = "<" /\ s[i + 1] = "@"
    THEN LET stops == {j \in (i + 2)..Len(s) : s[j] \notin Alnum}
             j == IF stops = {} THEN 0
                  ELSE CHOOSE m \in stops : \A n \in stops : m <= n
         IN  IF j > 0 /\ s[j] = ">" THEN j ELSE 0
    ELSE 0

MatchStarts(s) == {i \in 1..Len(s) : MatchEnd(s, i) > 0}

\* result is not None
HasMatch(s) == MatchStarts(s) # {}

\* result.group(0): the leftmost match
SearchFirst(s) ==
    LET i == CHOOSE m \in MatchStarts(s) : \A n \in MatchStarts(s) : m <= n
    IN  SubSeq(s, i, MatchEnd(s, i))

----------------------------------------------------------------------------
(* VirtualCourierArchive._normalize_text *)

\* text.replace("’", "'").replace("…", "...")
Decode(s) == Replace(Replace(s, <<RSQUO>>, <<"'">>), <<ELLIPSIS>>, <<".", ".", ".">>)

\* str.replace(old, new, 1)
ReplaceFirst(s, old, new) ==
    LET at == {i \in 1..Len(s) : StartsAt(s, old, i)}
        i == CHOOSE m \in at : \A n \in at : m <= n
    IN  IF at = {} THEN s
        ELSE SubSeq(s, 1, i - 1) \o new \o SubSeq(s, i + Len(old), Len(s))

\* The branch with the replacement limited to the match itself.
SubstituteMention_MatchOnly(m, s) ==
    IF HasMatch(s)
    THEN LET result_text == SearchFirst(s)
             user_id == SubSeq(result_text, 3, Len(result_text) - 1)
             user_name == IF user_id \in DOMAIN m THEN m[user_id] ELSE user_id
         IN  Str(ReplaceFirst(s, result_text, <<"@">> \o user_name))
    ELSE Str(s)

\* The branch taken when possible_user_id is set.
SubstituteMention(m, s) ==
    IF HasMatch(s)
    THEN LET result_text == SearchFirst(s)
             user_id == SubSeq(result_text, 3, Len(result_text) - 1)
             user_name == IF user_id \in DOMAIN m THEN m[user_id] ELSE user_id
             replace_with == <<"@">> \o user_name
         IN  Str(Replace(s, result_text, replace_with))
    ELSE Str(s)

\* A call that does not take the branch runs off the end of the function.
_normalize_text(m, s, flag) ==
    IF flag THEN SubstituteMention(m, Decode(s)) ELSE None

----------------------------------------------------------------------------
(* os.path.splitext and unique_filename *)

LastIndexOf(s, c) ==
    LET at == {i \in 1..Len(s) : s[i] = c}
    IN  IF at = {} THEN 0 ELSE CHOOSE i \in at : \A j \in at : j <= i

\* posixpath.splitext: the extension starts at the last dot of the last path
\* component, unless only dots precede it there.
Splitext(p) ==
    LET sepIndex == LastIndexOf(p, "/")
        dotIndex == LastIndexOf(p, ".")
    IN  IF /\ dotIndex > sepIndex
           /\ \E filenameIndex \in (sepIndex + 1)..(dotIndex - 1) : p[filenameIndex] # "."
        THEN <<SubSeq(p, 1, dotIndex - 1), SubSeq(p, dotIndex, Len(p))>>
        ELSE <<p, <<>>>>

DigitChars == <<"0", "1", "2", "3", "4", "5", "6", "7", "8", "9">>

\* str(n) for n >= 0
RECURSIVE IntToStr(_)
IntToStr(n) ==
    IF n < 10 THEN <<DigitChars[n + 1]>>
    ELSE IntToStr(n \div 10) \o <<DigitChars[(n % 10) + 1]>>

\* The while loop of unique_filename; file_list is read by "in" alone and is
\* the set of its entries.
RECURSIVE UniqueLoop(_, _, _, _, _)
UniqueLoop(split_filename, ext, file_list, filename, counter) ==
    IF filename \o ext \in file_list
    THEN UniqueLoop(split_filename, ext, file_list,
                    split_filename \o <<" ", "(">> \o IntToStr(counter) \o <<")">>,
                    counter + 1)
    ELSE filename \o ext

\* The rename done once (an if for the while), its result not tested again.
unique_filename_RenamedOnce(orig_filename, file_list) ==
    LET filename == Splitext(orig_filename)[1]
        ext == Splitext(orig_filename)[2]
    IN  IF filename \o ext \in file_list
        THEN filename \o <<" ", "(", "1", ")">> \o ext
        ELSE filename \o ext

unique_filename(orig_filename, file_list) ==
    LET filename == Splitext(orig_filename)[1]
        ext == Splitext(orig_filename)[2]
    IN  UniqueLoop(filename, ext, file_list, filename, 1)

Unknown == <<"U", "n", "k", "n", "o", "w", "n">>

Range(f) == {f[i] : i \in DOMAIN f}

\* One turn of the loop over message["files"] in _parse_message: the
\* attachment appended for file.
Attachment(parsed, file) ==
    LET filename_original == file.name
        filename_modified == IF filename_original # None
                             THEN filename_original.value ELSE Unknown
        filename == unique_filename(filename_modified,
                                    {parsed[i].filename : i \in DOMAIN parsed})
    IN  [filename |-> filename,
         url_download |-> file.url_private_download,
         url |-> file.url_private]

----------------------------------------------------------------------------
(* VirtualCourierArchive._get_channel_history *)

\* response.data of a conversations_history call: response_metadata is None
\* when the key is absent, and else holds next_cursor.
NoResponse == [messages |-> <<>>, has_more |-> FALSE, response_metadata |-> None]

\* The page the platform serves for a cursor (None: the first page).
CursorOf(i) == <<"p">> \o IntToStr(i)

conversations_history(served, cursor) ==
    IF cursor = None THEN served[1]
    ELSE served[CHOOSE i \in DOMAIN served : CursorOf(i) = cursor.value]

\* response_parent.data["messages"] = response.data["messages"]
Accumulate_Overwrites(parent_messages, page_messages) == page_messages

\* response_parent.data["messages"] += response.data["messages"]
Accumulate(parent_messages, page_messages) == parent_messages \o page_messages

\* The key is popped and has_more reset only when the first page has the key.
Finish(parent) ==
    IF parent.response_metadata # None
    THEN [parent EXCEPT !.response_metadata = None, !.has_more = FALSE]
    ELSE parent

----------------------------------------------------------------------------
(* VirtualCourierArchive._set_members *)

ShortName(id) == IF id = <<"U", "1">> THEN <<"j", "d">> ELSE <<"b", "o", "b">>
FullName(id) == IF id = <<"U", "1">> THEN <<"J", "a", "n", "e">> ELSE <<"B", "o">>
DeactivatedUser ==
    <<"D","e","a","c","t","i","v","a","t","e","d"," ","U","s","e","r">>

\* What users_info answers: a profile with a real name, the profile of a
\* deactivated account, a profile without real_name, or SlackApiError.
ProfileKinds == {"real_name", "deactivated", "no_real_name", "SlackApiError"}

\* user_dict[user] for one user
LookupName(kind, user) ==
    IF kind = "SlackApiError" THEN user
    ELSE IF kind = "no_real_name" THEN ShortName(user)
    ELSE LET user_name == IF kind = "deactivated" THEN DeactivatedUser
                          ELSE FullName(user)
         IN  IF user_name = DeactivatedUser THEN ShortName(user) ELSE user_name

\* A dictionary over every user of the workspace, the history's or not.
SetMembers_WholeDirectory(raw_messages, directory) ==
    [user \in DOMAIN directory |-> LookupName(directory[user], user)]

\* The dictionary over the distinct users of the history's records.
SetMembers(raw_messages, directory) ==
    LET users == {raw_messages[i].user.value :
                    i \in {j \in DOMAIN raw_messages : raw_messages[j].user # None}}
    IN  [user \in users |-> LookupName(directory[user], user)]

----------------------------------------------------------------------------
(* VirtualCourierArchive._parse_message and _set_messages *)

ChannelJoin == <<"channel_join">>
BotMessage == <<"bot_message">>
Slackbot == <<"S", "l", "a", "c", "k", "b", "o", "t">>

Returns(v) == [raises |-> "", value |-> v]
Raises(e) == [raises |-> e, value |-> <<>>]

\* The bot username is taken first, and Slackbot last.
ResolveSender_UsernameFirst(m, message) ==
    IF message.username # None THEN Returns(message.username.value)
    ELSE IF message.user # None
    THEN Returns(IF message.user.value \in DOMAIN m
                 THEN m[message.user.value] ELSE message.user.value)
    ELSE IF message.subtype = Str(ChannelJoin) THEN Returns(Slackbot)
    ELSE Raises("TypeError")

\* The sender of a record; json.loads of the record (a dict) is what raises
\* when there is none.
ResolveSender(m, message) ==
    LET subtype == message.subtype
        raw_user == message.user
    IN  IF subtype = Str(ChannelJoin) THEN Returns(Slackbot)
        ELSE IF raw_user = None /\ subtype = Str(BotMessage)
        THEN IF message.username = None THEN Raises("KeyError")
             ELSE Returns(message.username.value)
        ELSE IF raw_user = None THEN Raises("TypeError")
        ELSE Returns(IF raw_user.value \in DOMAIN m THEN m[raw_user.value]
                     ELSE raw_user.value)

RECURSIVE ParseFiles(_, _)
ParseFiles(parsed, rest) ==
    IF rest = <<>> THEN parsed
    ELSE ParseFiles(Append(parsed, Attachment(parsed, Head(rest))), Tail(rest))

\* strftime with %M as its finest field: the minute of the epoch timestamp.
Strftime(format, ts) == [format |-> format, minute |-> ts \div 60]

MessageDir(message_id) == <<"message_">> \o IntToStr(message_id)

NoMessage ==
    [message_id |-> 0, type |-> None, subtype |-> None, text |-> None, user |-> <<>>,
     files |-> <<>>, file_dir |-> <<>>,
     timestamp_display |-> Strftime("", 0), timestamp |-> Strftime("", 0)]

_parse_message(m, dir, message, message_id) ==
    LET parsed == IF message.files # None THEN ParseFiles(<<>>, message.files.value)
                  ELSE <<>>
        user == ResolveSender(m, message)
    IN  IF user.raises # "" THEN [raises |-> user.raises, value |-> NoMessage]
        ELSE IF message.text = None
        THEN [raises |-> "AttributeError", value |-> NoMessage]
        ELSE Returns(
            [message_id |-> message_id,
             type |-> message.type,
             subtype |-> message.subtype,
             text |-> _normalize_text(m, message.text.value, TRUE),
             user |-> user.value,
             files |-> parsed,
             file_dir |-> Append(dir, MessageDir(message_id)),
             timestamp_display |-> Strftime("%m/%d/%Y at %I:%M %p", message.ts),
             timestamp |-> Strftime("%Y-%m-%d %I:%M%p", message.ts)])

Reverse(q) == [i \in 1..Len(q) |-> q[Len(q) + 1 - i]]

\* The loop of _set_messages over an iterable: the list built, or the
\* exception of the first record that does not parse.
RECURSIVE ParseAll(_, _, _, _)
ParseAll(m, dir, iterable, messages_list) ==
    IF iterable = <<>> THEN Returns(messages_list)
    ELSE LET message_dict ==
                _parse_message(m, dir, Head(iterable), Len(messages_list) + 1)
         IN  IF message_dict.raises # "" THEN Raises(message_dict.raises)
             ELSE ParseAll(m, dir, Tail(iterable),
                           Append(messages_list, message_dict.value))

\* The records enumerated as delivered, newest first.
SetMessages_NotReversed(m, dir, messages_raw) == ParseAll(m, dir, messages_raw, <<>>)

SetMessages(m, dir, messages_raw) == ParseAll(m, dir, Reverse(messages_raw), <<>>)

----------------------------------------------------------------------------
(* The file system, os.walk and shutil.rmtree; VirtualCourierArchive.cleanup *)

NoFs == [dirs |-> {}, files |-> <<>>]

IsPrefix(d, path) == Len(d) <= Len(path) /\ SubSeq(path, 1, Len(d)) = d
Under(d, path) == Len(d) < Len(path) /\ IsPrefix(d, path)
Parent(path) == SubSeq(path, 1, Len(path) - 1)

\* [d[0] for d in os.walk(target_dir) if d[0] != target_dir]: every directory
\* below the target at any depth; none when the target does not exist.
WalkedDirs(dirs, target_dir) ==
    IF target_dir \in dirs THEN {d \in dirs : Under(target_dir, d)} ELSE {}

\* The orders os.walk may list them in: top-down, a directory before the
\* directories below it.
WalkOrders(walked) ==
    { order \in [1..Cardinality(walked) -> walked] :
        /\ \A i, j \in DOMAIN order : i # j => order[i] # order[j]
        /\ \A i, j \in DOMAIN order : Under(order[i], order[j]) => i < j }

\* rmtree(d) on a directory that exists
RmTree(fs, d) ==
    [dirs |-> {x \in fs.dirs : ~IsPrefix(d, x)},
     files |-> [f \in {x \in DOMAIN fs.files : ~IsPrefix(d, x)} |-> fs.files[f]]]

\* for d in dirs_to_remove: rmtree(d); rmtree raises when d is gone.
RECURSIVE RemoveAll(_, _)
RemoveAll(fs, dirs_to_remove) ==
    IF dirs_to_remove = <<>> THEN [fs |-> fs, raises |-> ""]
    ELSE IF Head(dirs_to_remove) \notin fs.dirs
    THEN [fs |-> fs, raises |-> "FileNotFoundError"]
    ELSE RemoveAll(RmTree(fs, Head(dirs_to_remove)), Tail(dirs_to_remove))

\* The outcomes of cleanup, one for each order of the walk.
CleanupOutcomes(fs, target_dir) ==
    { RemoveAll(fs, order) : order \in WalkOrders(WalkedDirs(fs.dirs, target_dir)) }

----------------------------------------------------------------------------
(* str.lower, str.title, str.endswith *)

LowerChars ==
    <<"a","b","c","d","e","f","g","h","i","j","k","l","m","n","o","p","q","r",
      "s","t","u","v","w","x","y","z">>
UpperChars ==
    <<"A","B","C","D","E","F","G","H","I","J","K","L","M","N","O","P","Q","R",
      "S","T","U","V","W","X","Y","Z">>

IsLetter(c) == c \in Range(LowerChars) \cup Range(UpperChars)
ToLower(c) ==
    IF c \in Range(UpperChars)
    THEN LowerChars[CHOOSE i \in DOMAIN UpperChars : UpperChars[i] = c] ELSE c
ToUpper(c) ==
    IF c \in Range(LowerChars)
    THEN UpperChars[CHOOSE i \in DOMAIN LowerChars : LowerChars[i] = c] ELSE c

Lower(s) == [i \in 1..Len(s) |-> ToLower(s[i])]

\* str.title: a letter after a non-letter in upper case, any other in lower.
Title(s) ==
    [i \in 1..Len(s) |->
        IF i = 1 \/ ~IsLetter(s[i - 1]) THEN ToUpper(s[i]) ELSE ToLower(s[i])]

EndsWith(s, suffix) ==
    Len(suffix) <= Len(s) /\ SubSeq(s, Len(s) - Len(suffix) + 1, Len(s)) = suffix

\* supported_filetypes
SupportedFiletypes ==
    { <<"j", "p", "g">>, <<"j", "p", "e", "g">>, <<"p", "n", "g">>, <<"g", "i", "f">> }

\* s.lower().endswith(supported_filetypes)
IsSupported(s) == \E t \in SupportedFiletypes : EndsWith(Lower(s), t)

----------------------------------------------------------------------------
(* _set_output_dir, download_files, make_csv, make_pdf *)

\* os.path.join(output_dir, f"{self.channel_name.title()} Archive")
OutputDirOf(output_dir, channel_name) ==
    Append(output_dir, Title(channel_name) \o <<" ", "A", "r", "c", "h", "i", "v", "e">>)

RECURSIVE SelectSeq2(_, _)
SelectSeq2(q, keep) ==
    IF q = <<>> THEN <<>>
    ELSE IF keep[Head(q).filename]
         THEN <<Head(q)>> \o SelectSeq2(Tail(q), keep)
         ELSE SelectSeq2(Tail(q), keep)

\* files_to_download of one message
FilesToDownload(message) ==
    SelectSeq2(message.files,
               [n \in {message.files[i].filename : i \in DOMAIN message.files}
                    |-> IsSupported(n)])

\* What download_files does, in order: the staging directory of each message
\* with a supported file is made, then each such file that has a download
\* URL is fetched and written.
DownloadSteps(parsed) ==
    Flatten([k \in DOMAIN parsed |->
        LET files_to_download == FilesToDownload(parsed[k])
        IN  IF Len(files_to_download) > 0
            THEN <<[op |-> "makedirs", path |-> parsed[k].file_dir]>>
                 \o Flatten([i \in DOMAIN files_to_download |->
                        IF files_to_download[i].url_download # None
                        THEN <<[op |-> "get",
                                path |-> Append(parsed[k].file_dir,
                                                files_to_download[i].filename)]>>
                        ELSE <<>>])
            ELSE <<>>])

\* os.makedirs(path): the directory and those above it
MakeDirs(dirs, path) == dirs \cup {SubSeq(path, 1, n) : n \in 1..Len(path)}

\* The rows of make_csv.
CsvRows(parsed) ==
    Flatten([k \in DOMAIN parsed |->
        LET row(file) == [sender |-> parsed[k].user, timestamp |-> parsed[k].timestamp,
                          text |-> parsed[k].text, file |-> file]
        IN  IF Len(parsed[k].files) > 0
            THEN [i \in DOMAIN parsed[k].files |-> row(parsed[k].files[i].url)]
            ELSE <<row(Str(<<>>))>>])

FileLabel == <<"F", "i", "l", "e", ":", " ">>

\* What make_pdf puts in the document for one attachment: the image when the
\* path has a supported ending and pdf.image reads it, else the link line.
RenderAttachment(m, files_now, file_dir, file) ==
    LET filename == _normalize_text(m, file.filename, FALSE)
        filepath == Append(file_dir, Format(filename))
        readable == filepath \in DOMAIN files_now /\ files_now[filepath].kind = "image"
        link == [embedded |-> FALSE, text |-> FileLabel \o Format(filename),
                 link |-> file.url]
    IN  IF IsSupported(Format(filename))
        THEN IF readable
             THEN [embedded |-> TRUE, text |-> <<>>, link |-> None]
             ELSE link
        ELSE link

\* The document: for each message its header, its text and its attachments.
RenderMessages(m, files_now, parsed) ==
    [k \in DOMAIN parsed |->
        [header |-> IF parsed[k].subtype = Str(ChannelJoin)
                    THEN [user |-> <<>>, ts |-> parsed[k].timestamp_display]
                    ELSE [user |-> parsed[k].user, ts |-> parsed[k].timestamp_display],
         text |-> parsed[k].text,
         attachments |-> [i \in DOMAIN parsed[k].files |->
            RenderAttachment(m, files_now, parsed[k].file_dir, parsed[k].files[i])]]]

----------------------------------------------------------------------------
(* The inputs of the text normalizer *)

Mention(id) == <<"<", "@">> \o id \o <<">">>

UserU == <<"U", "1">>
UserV == <<"V">>
UserIds == {UserU, UserV}

RealName(id) == FullName(id)

Pieces ==
    { Mention(UserU), Mention(UserV), Mention(<<>>),
      <<"h", "i", " ">>, <<RSQUO>>, <<ELLIPSIS>>, <<"<", "@", "U", "1">>, <<">">> }

RECURSIVE TextsOf(_)
TextsOf(n) ==
    IF n = 0 THEN {<<>>}
    ELSE LET shorter == TextsOf(n - 1)
         IN  shorter \cup {s \o p : s \in shorter, p \in Pieces}

Texts == TextsOf(MaxPieces)

\* The identity maps of the text specification: any part of the users known.
IdentityMaps == {[id \in known |-> RealName(id)] : known \in SUBSET UserIds}

----------------------------------------------------------------------------
(* The values of the variables a specification does not use *)

NoCall == [orig_filename |-> <<>>, file_list |-> {}, result |-> <<>>]

IdleText == text = <<>> /\ possible_user_id = TRUE /\ normalized = None
IdleDedup == raw_files = <<>> /\ files = <<>> /\ last_call = NoCall
IdleFetch ==
    pages = <<>> /\ requests = <<>> /\ response = NoResponse /\ response_parent = NoResponse
IdleHistory == raw_history = NoResponse
IdleParse == profiles = <<>> /\ messages = <<>>
IdleFs == fs_dirs = {} /\ fs_files = <<>> /\ fs_before = NoFs
IdleRun ==
    /\ history_of = <<>> /\ trigger = <<>> /\ run_pc = <<>> /\ arch = <<>>
    /\ posted = <<>> /\ rendered = <<>> /\ interference = {}

----------------------------------------------------------------------------
(* SpecText: one call of _normalize_text on any text *)

InitText ==
    /\ pc = "call"
    /\ text \in Texts
    /\ possible_user_id \in BOOLEAN
    /\ members \in IdentityMaps
    /\ normalized = None
    /\ raised = ""
    /\ IdleDedup /\ IdleFetch /\ IdleHistory /\ IdleParse /\ IdleFs /\ IdleRun

NormalizeText ==
    /\ pc = "call"
    /\ normalized' = _normalize_text(members, text, possible_user_id)
    /\ pc' = "returned"
    /\ UNCHANGED <<raised, text, possible_user_id, members, raw_history, dedupVars,
                   fetchVars, parseVars, fsVars, runVars>>

NextText == NormalizeText

SpecText == InitText /\ [][NextText]_vars

----------------------------------------------------------------------------
(* Claims about the text normalizer (SpecText) *)

\* The text with U+2019 and U+2026 spelled in ASCII, character by character.
Ascii(s) ==
    Flatten([i \in 1..Len(s) |->
        IF s[i] = RSQUO THEN <<"'">>
        ELSE IF s[i] = ELLIPSIS THEN <<".", ".", ".">>
        ELSE <<s[i]>>])

\* The name a mention of id is shown by.
ShownAs(id) == <<"@">> \o (IF id \in DOMAIN members THEN members[id] ELSE id)

\* Where the leftmost mention token of s starts and ends.
FirstStart(s) == CHOOSE i \in MatchStarts(s) : \A j \in MatchStarts(s) : i <= j
FirstEnd(s) == MatchEnd(s, FirstStart(s))
FirstToken(s) == SubSeq(s, FirstStart(s), FirstEnd(s))
FirstId(s) == SubSeq(s, FirstStart(s) + 2, FirstEnd(s) - 1)

\* C3: with mention substitution disabled the normalizer returns a text (never
\* None): the input with each right-single-quote replaced by an apostrophe and
\* each ellipsis character by three dots, and nothing else changed.
C3_DisabledReturnsDecodedText ==
    (pc = "returned" /\ ~possible_user_id) => normalized = Str(Ascii(text))

\* C4 as claimed: with mention substitution enabled only the leftmost mention
\* token is replaced, by "@" and the display name (or the raw identifier);
\* every other token occurrence, a later one of the same identifier included,
\* is unchanged, and a text without a token is returned as decoded.
C4_OnlyFirstMentionReplaced ==
    (pc = "returned" /\ possible_user_id) =>
        LET d == Ascii(text)
        IN  normalized =
                IF HasMatch(d)
                THEN Str(SubSeq(d, 1, FirstStart(d) - 1)
                         \o ShownAs(FirstId(d))
                         \o SubSeq(d, FirstEnd(d) + 1, Len(d)))
                ELSE Str(d)

\* C4 as amended: with mention substitution enabled every occurrence of the
\* leftmost mention token's text is replaced by "@" and the display name of
\* its identifier (the raw identifier when the map has no entry); every
\* character outside these occurrences, the tokens of other identifiers
\* included, is unchanged; a text without a token is returned as decoded.
C4_EveryOccurrenceOfFirstTokenReplaced ==
    (pc = "returned" /\ possible_user_id) =>
        LET d == Ascii(text)
            tok == FirstToken(d)
            occ == {i \in 1..Len(d) : StartsAt(d, tok, i)}
            inside(i) == \E o \in occ : o < i /\ i < o + Len(tok)
        IN  normalized =
                IF HasMatch(d)
                THEN Str(Flatten([i \in 1..Len(d) |->
                         IF i \in occ THEN ShownAs(FirstId(d))
                         ELSE IF inside(i) THEN <<>>
                         ELSE <<d[i]>>]))
                ELSE Str(d)

\* A text with the same token twice and another identifier's token between.
C4_RepeatedTokenNormalized ==
    /\ pc = "returned"
    /\ possible_user_id
    /\ text = Mention(UserU) \o Mention(UserV) \o Mention(UserU)
    /\ members = [id \in {UserU} |-> RealName(id)]
    /\ normalized = Str(<<"@", "J", "a", "n", "e">> \o Mention(UserV)
                        \o <<"@", "J", "a", "n", "e">>)

----------------------------------------------------------------------------
(* SpecDedup: the loop of _parse_message over the files of one raw record *)

Url(u) == Str(<<u>>)

RawFile(name) ==
    [name |-> name,
     url_private_download |-> Url("https://files/download"),
     url_private |-> Url("https://files/view")]

RawNames ==
    { None,
      Str(<<"a", ".", "p", "n", "g">>),
      Str(<<"a", " ", "(", "1", ")", ".", "p", "n", "g">>),
      Str(<<"a">>),
      Str(<<".", "p", "n", "g">>),
      Str(<<"x", ".", "d", "/", "a">>),
      Str(Unknown),
      Str(Unknown \o <<" ", "(", "1", ")">>) }

RECURSIVE SeqsUpTo(_, _)
SeqsUpTo(S, n) ==
    IF n = 0 THEN {<<>>}
    ELSE LET shorter == SeqsUpTo(S, n - 1)
         IN  shorter \cup {Append(q, x) : q \in shorter, x \in S}

InitDedup ==
    /\ pc = "files"
    /\ raw_files \in SeqsUpTo({RawFile(n) : n \in RawNames}, MaxFiles)
    /\ files = <<>>
    /\ last_call = NoCall
    /\ members = <<>>
    /\ raised = ""
    /\ IdleText /\ IdleFetch /\ IdleHistory /\ IdleParse /\ IdleFs /\ IdleRun

ParseFile ==
    /\ pc = "files"
    /\ raw_files # <<>>
    /\ LET file == Head(raw_files)
           parsed == Attachment(files, file)
       IN  /\ files' = Append(files, parsed)
           /\ last_call' =
                [orig_filename |-> IF file.name # None THEN file.name.value ELSE Unknown,
                 file_list |-> {files[i].filename : i \in DOMAIN files},
                 result |-> parsed.filename]
    /\ raw_files' = Tail(raw_files)
    /\ UNCHANGED <<pc, raised, members, raw_history, textVars, fetchVars, parseVars, fsVars, runVars>>

NextDedup == ParseFile

SpecDedup == InitDedup /\ [][NextDedup]_vars

\* stem + " (n)" + extension
Numbered(name, n) ==
    Splitext(name)[1] \o <<" ", "(">> \o IntToStr(n) \o <<")">> \o Splitext(name)[2]

\* C5: the deduplicator returns a name that is not among the names already
\* assigned: the desired name when that is free, otherwise stem + " (n)" +
\* extension for the smallest n >= 1 that is free; so the filenames of one
\* message's attachments are pairwise distinct, a missing name read as Unknown.
C5_UniqueFilename ==
    /\ last_call # NoCall =>
        LET want == last_call.orig_filename
            used == last_call.file_list
            got == last_call.result
        IN  /\ got \notin used
            /\ want \notin used => got = want
            /\ want \in used =>
                \E n \in 1..Cardinality(used) :
                    /\ got = Numbered(want, n)
                    /\ \A k \in 1..(n - 1) : Numbered(want, k) \in used
    /\ \A i, j \in DOMAIN files : i # j => files[i].filename # files[j].filename

\* The spec's example: a.png is wanted while a.png and a (1).png are taken.
C5_SecondCollision ==
    /\ last_call.orig_filename = <<"a", ".", "p", "n", "g">>
    /\ last_call.file_list = { <<"a", ".", "p", "n", "g">>,
                               <<"a", " ", "(", "1", ")", ".", "p", "n", "g">> }
    /\ last_call.result = <<"a", " ", "(", "2", ")", ".", "p", "n", "g">>
    /\ Len(files) = 3

----------------------------------------------------------------------------
(* SpecFetch: _get_channel_history against any chain of pages *)

\* The chains of pages of a channel: the records numbered newest first across
\* the pages, each page but the last pointing to the next one.  A page that
\* reports has_more carries its cursor; another page may carry the key or not.
RECURSIVE SumUpTo(_, _)
SumUpTo(sizes, i) == IF i = 0 THEN 0 ELSE sizes[i] + SumUpTo(sizes, i - 1)

Record(n) == [ts |-> n]

PageChain(sizes, more, meta) ==
    [i \in DOMAIN sizes |->
        [messages |-> [k \in 1..sizes[i] |-> Record(SumUpTo(sizes, i - 1) + k)],
         has_more |-> more[i],
         response_metadata |->
            IF more[i] \/ meta[i] THEN Str(CursorOf(i + 1)) ELSE None]]

PageChains ==
    UNION {
        { PageChain(sizes, more, meta) :
            sizes \in [1..n -> 0..MaxPageSize],
            more \in {m \in [1..n -> BOOLEAN] : ~m[n]},
            meta \in {m \in [1..n -> BOOLEAN] : \A i \in 2..n : ~m[i]} }
        : n \in 1..MaxPages }

InitFetch ==
    /\ pc = "fetch"
    /\ pages \in PageChains
    /\ requests = <<>>
    /\ response = NoResponse
    /\ response_parent = NoResponse
    /\ raw_history = NoResponse
    /\ members = <<>>
    /\ raised = ""
    /\ IdleText /\ IdleDedup /\ IdleParse /\ IdleFs /\ IdleRun

\* response_parent = client.conversations_history(channel=channel_id)
FetchFirst ==
    /\ pc = "fetch"
    /\ requests' = <<None>>
    /\ response_parent' = conversations_history(pages, None)
    /\ response' = conversations_history(pages, None)
    /\ pc' = "loop"
    /\ UNCHANGED <<raised, pages, raw_history, members, textVars, dedupVars, parseVars, fsVars, runVars>>

\* One turn of the while loop.
FetchNext ==
    /\ pc = "loop"
    /\ response.has_more
    /\ LET next == response.response_metadata
           page == conversations_history(pages, next)
       IN  /\ requests' = Append(requests, next)
           /\ response' = page
           /\ response_parent' =
                [response_parent EXCEPT
                    !.messages = Accumulate(response_parent.messages, page.messages)]
    /\ UNCHANGED <<pc, raised, pages, raw_history, members, textVars, dedupVars, parseVars, fsVars, runVars>>

\* The loop left: the cursor is dropped and the collection returned.
FetchReturn ==
    /\ pc = "loop"
    /\ ~response.has_more
    /\ raw_history' = Finish(response_parent)
    /\ response_parent' = Finish(response_parent)
    /\ pc' = "returned"
    /\ UNCHANGED <<raised, pages, requests, response, members, textVars, dedupVars,
                   parseVars, fsVars, runVars>>

\* A call raises SlackApiError, which _get_channel_history raises again.
FetchFail ==
    /\ pc \in {"fetch", "loop"}
    /\ pc = "loop" => response.has_more
    /\ requests' = Append(requests, IF pc = "fetch" THEN None ELSE response.response_metadata)
    /\ pc' = "failed"
    /\ raised' = "SlackApiError"
    /\ UNCHANGED <<pages, response, response_parent, raw_history, members,
                   textVars, dedupVars, parseVars, fsVars, runVars>>

NextFetch == FetchFirst \/ FetchNext \/ FetchReturn \/ FetchFail

SpecFetch == InitFetch /\ [][NextFetch]_vars

\* The first page of the chain that reports no further pages.
LastServed ==
    CHOOSE k \in DOMAIN pages :
        ~pages[k].has_more /\ \A i \in 1..(k - 1) : pages[i].has_more

\* The cursor the i-th request must carry.
ExpectedCursor(i) == IF i = 1 THEN None ELSE pages[i - 1].response_metadata

\* C6: the fetcher requests the first page without a cursor and page i+1 with
\* the cursor of page i exactly when page i reports has-more; it stops after
\* the first page that reports no further pages and returns the records of the
\* requested pages concatenated in request order, marked as having no more.
C6_FetchesEveryPageInOrder ==
    /\ Len(requests) <= LastServed
    /\ \A i \in DOMAIN requests : requests[i] = ExpectedCursor(i)
    /\ pc = "returned" =>
        /\ Len(requests) = LastServed
        /\ raw_history.messages =
                Flatten([i \in 1..LastServed |-> pages[i].messages])
        /\ ~raw_history.has_more

\* A fetch of three pages with records returned.
C6_ThreePagesFetched ==
    /\ pc = "returned"
    /\ Len(requests) = 3
    /\ Len(raw_history.messages) = 5
    /\ pages[1].response_metadata # None

----------------------------------------------------------------------------
(* SpecParse: _set_members and _set_messages on any fetched history *)

OutputDir == <<"cwd", "General Archive">>

RawMessage(user, subtype, username, msg_text, msg_files) ==
    [type |-> Str(<<"message">>), user |-> user, subtype |-> subtype,
     username |-> username, text |-> msg_text, files |-> msg_files, ts |-> 0]

\* The records a history is made of.
RawKinds ==
    LET hi == Str(Mention(UserU) \o <<"h", "i">>)
        bot == Str(<<"b", "o", "t">>)
        a_png == RawFile(Str(<<"a", ".", "p", "n", "g">>))
    IN  { RawMessage(Str(UserU), None, None, hi, None),
          RawMessage(Str(UserU), Str(ChannelJoin), None, hi, None),
          RawMessage(None, Str(ChannelJoin), None, hi, None),
          RawMessage(None, Str(BotMessage), bot, hi, None),
          RawMessage(Str(UserU), Str(BotMessage), bot, hi, None),
          RawMessage(None, Str(BotMessage), None, hi, None),
          RawMessage(None, None, bot, hi, None),
          RawMessage(None, None, None, hi, None),
          RawMessage(Str(UserV), None, None, None, None),
          RawMessage(Str(UserV), None, None, Str(<<RSQUO>>), Str(<<a_png, a_png>>)) }

\* Record i of n, delivered newest first: 40 seconds apart.
Histories ==
    UNION { { [i \in 1..n |-> [kinds[i] EXCEPT !.ts = 40 * (n + 1 - i)]] :
                kinds \in [1..n -> RawKinds] }
            : n \in 0..MaxRecords }

InitParse ==
    /\ pc = "fetched"
    /\ raised = ""
    /\ \E h \in Histories :
        raw_history = [messages |-> h, has_more |-> FALSE, response_metadata |-> None]
    /\ \E kind \in ProfileKinds : profiles = [id \in UserIds |-> kind]
    /\ members = <<>>
    /\ messages = <<>>
    /\ IdleText /\ IdleDedup /\ IdleFetch /\ IdleFs /\ IdleRun

_set_members ==
    /\ pc = "fetched"
    /\ members' = SetMembers(raw_history.messages, profiles)
    /\ pc' = "members"
    /\ UNCHANGED <<raised, raw_history, profiles, messages, textVars, dedupVars, fetchVars, fsVars, runVars>>

_set_messages ==
    /\ pc = "members"
    /\ LET result == SetMessages(members, OutputDir, raw_history.messages)
       IN  \/ /\ result.raises = ""
              /\ messages' = result.value
              /\ pc' = "constructed"
              /\ UNCHANGED raised
           \/ /\ result.raises # ""
              /\ raised' = result.raises
              /\ pc' = "failed"
              /\ UNCHANGED messages
    /\ UNCHANGED <<raw_history, profiles, members, textVars, dedupVars, fetchVars, fsVars, runVars>>

NextParse == _set_members \/ _set_messages

SpecParse == InitParse /\ [][NextParse]_vars

\* The k-th oldest record of the history: the one with k - 1 older records.
KthOldest(k) ==
    LET raw == raw_history.messages
    IN  raw[CHOOSE i \in DOMAIN raw :
                Cardinality({j \in DOMAIN raw : raw[j].ts < raw[i].ts}) = k - 1]

\* C1: once the Archive is constructed there are as many Messages as raw
\* records, the message_id values are 1..N in sequence order, and the Message
\* with message_id k is the parse of the k-th oldest raw record.
C1_MessageIdsChronological ==
    pc = "constructed" =>
        /\ Len(messages) = Len(raw_history.messages)
        /\ \A k \in DOMAIN messages :
            /\ messages[k].message_id = k
            /\ messages[k] = _parse_message(members, OutputDir, KthOldest(k), k).value
            /\ messages[k].timestamp = Strftime("%Y-%m-%d %I:%M%p", 40 * k)

\* An archive of three records constructed.
C1_ThreeRecordsParsed ==
    /\ pc = "constructed"
    /\ Len(messages) = 3
    /\ messages[1].user # messages[3].user
    /\ messages[3].timestamp.minute = 2

\* The raw record Message k was parsed from.
RawOf(k) == raw_history.messages[Len(raw_history.messages) + 1 - k]

NameOf(id) == IF id \in DOMAIN members THEN members[id] ELSE id

\* C2 as claimed: the sender is the record's bot username if it has one, else
\* the IdentityMap entry of its user identifier, else the raw identifier, and
\* Slackbot only for a channel-join record with none of these.
C2_UsernameThenIdentityThenSlackbot ==
    pc = "constructed" =>
        \A k \in DOMAIN messages :
            messages[k].user =
                IF RawOf(k).username # None THEN RawOf(k).username.value
                ELSE IF RawOf(k).user # None THEN NameOf(RawOf(k).user.value)
                ELSE Slackbot

\* C2 as amended: a channel-join record's sender is Slackbot, whatever else
\* the record carries; any other record without a user identifier gets its
\* bot username if it is a bot-message record, and has no sender otherwise
\* (the archive is not constructed); every other record gets the IdentityMap
\* entry of its user identifier, or the raw identifier when there is none.
C2_SlackbotThenBotThenIdentity ==
    /\ pc = "constructed" =>
        \A k \in DOMAIN messages :
            /\ messages[k].user =
                IF RawOf(k).subtype = Str(ChannelJoin) THEN Slackbot
                ELSE IF RawOf(k).user = None THEN RawOf(k).username.value
                ELSE NameOf(RawOf(k).user.value)
            /\ (RawOf(k).subtype # Str(ChannelJoin) /\ RawOf(k).user = None) =>
                    (RawOf(k).subtype = Str(BotMessage) /\ RawOf(k).username # None)
    /\ (pc = "failed" /\ raised \in {"TypeError", "KeyError"}) =>
        \E i \in DOMAIN raw_history.messages :
            LET r == raw_history.messages[i]
            IN  /\ r.subtype # Str(ChannelJoin)
                /\ r.user = None
                /\ r.subtype = Str(BotMessage) => r.username = None

\* A channel-join record with a resolvable user and a record with both a user
\* and a bot username, parsed.
C2_JoinAndBotRecordsParsed ==
    /\ pc = "constructed"
    /\ \E j, k \in DOMAIN messages :
        /\ RawOf(j).subtype = Str(ChannelJoin)
        /\ RawOf(j).user = Str(UserU)
        /\ messages[j].user = Slackbot
        /\ RawOf(k).subtype = Str(BotMessage)
        /\ RawOf(k).user = Str(UserU)
        /\ RawOf(k).username # None
        /\ messages[k].user = FullName(UserU)

----------------------------------------------------------------------------
(* SpecCleanup: cleanup, twice, on any tree under the output directory *)

CsvFile == Append(OutputDir, <<"general.csv">>)
PdfFile == Append(OutputDir, <<"general.pdf">>)
StagingDir(k) == Append(OutputDir, MessageDir(k))
NestedDir == Append(StagingDir(1), <<"thumbs">>)

DirPool == {OutputDir, StagingDir(1), StagingDir(2), NestedDir}
FilePool ==
    { CsvFile, PdfFile,
      Append(StagingDir(1), <<"a", ".", "p", "n", "g">>),
      Append(StagingDir(2), <<"a", ".", "p", "n", "g">>),
      Append(NestedDir, <<"t", ".", "p", "n", "g">>) }

\* The trees: a directory exists only inside an existing directory, a file too.
Trees ==
    { [dirs |-> D, files |-> [f \in F |-> "content"]] :
        D \in {X \in SUBSET DirPool :
                \A d \in X : d = OutputDir \/ Parent(d) \in X},
        F \in SUBSET FilePool }

InitCleanup ==
    /\ pc = "rendered"
    /\ raised = ""
    /\ \E t \in Trees :
        /\ \A f \in DOMAIN t.files : Parent(f) \in t.dirs
        /\ fs_dirs = t.dirs
        /\ fs_files = t.files
    /\ fs_before = NoFs
    /\ members = <<>>
    /\ IdleText /\ IdleDedup /\ IdleFetch /\ IdleHistory /\ IdleParse /\ IdleRun

\* arch.cleanup(), and arch.cleanup() again
cleanup ==
    /\ pc \in {"rendered", "cleaned"}
    /\ fs_before' = [dirs |-> fs_dirs, files |-> fs_files]
    /\ \E outcome \in CleanupOutcomes([dirs |-> fs_dirs, files |-> fs_files], OutputDir) :
        /\ fs_dirs' = outcome.fs.dirs
        /\ fs_files' = outcome.fs.files
        /\ raised' = outcome.raises
        /\ pc' = IF outcome.raises # "" THEN "failed"
                 ELSE IF pc = "rendered" THEN "cleaned" ELSE "cleaned again"
    /\ UNCHANGED <<members, raw_history, textVars, dedupVars, fetchVars, parseVars, runVars>>

NextCleanup == cleanup

SpecCleanup == InitCleanup /\ [][NextCleanup]_vars

\* The files directly inside the output directory.
DirectFiles(content) == {f \in DOMAIN content : Parent(f) = OutputDir}

\* C9: on any tree under the output directory, subdirectories at any depth
\* included, cleanup raises no error and leaves the output directory and the
\* files directly inside it in place and no subdirectory; a second cleanup
\* changes nothing and raises no error.
C9_CleanupRemovesEverySubdirectory ==
    /\ raised = ""
    /\ pc \in {"cleaned", "cleaned again"} =>
        /\ {d \in fs_dirs : Under(OutputDir, d)} = {}
        /\ (OutputDir \in fs_dirs) = (OutputDir \in fs_before.dirs)
        /\ DirectFiles(fs_files) = DirectFiles(fs_before.files)
        /\ DOMAIN fs_files = DirectFiles(fs_files)
    /\ pc = "cleaned again" =>
        fs_dirs = fs_before.dirs /\ fs_files = fs_before.files

----------------------------------------------------------------------------
(* Spec: two archive runs, from run.py's listener or slackless.py, on one   *)
(* file system.  A step of the pipeline is one action; the steps of the two *)
(* runs interleave.                                                         *)

Runs == {1, 2}

\* os.getcwd() of the listener, and the -output directory of slackless.py
Cwd == << <<"cwd">> >>
OutputArg == << <<"out">> >>

General == <<"g", "e", "n", "e", "r", "a", "l">>
Random == <<"r", "a", "n", "d", "o", "m">>

\* The channels of the workspace: id -> name.
ChannelIds == {"C1", "C2"}
ChannelName(id) == IF id = "C1" THEN General ELSE Random

RawFileWith(name, download, view) ==
    [name |-> name, url_private_download |-> download, url_private |-> view]

A_png == <<"a", ".", "p", "n", "g">>
Notes_txt == <<"n", "o", "t", "e", "s", ".", "t", "x", "t">>
P_JPG == <<"P", ".", "J", "P", "G">>

\* Histories, newest first.
GoodHistory ==
    << [RawMessage(Str(UserU), None, None, Str(<<"h", "i">>),
          Str(<<RawFileWith(Str(A_png), Url("https://files/download/1"),
                            Url("https://files/view/1")),
                RawFileWith(Str(Notes_txt), Url("https://files/download/2"),
                            Url("https://files/view/2"))>>))
          EXCEPT !.ts = 80],
       [RawMessage(Str(UserU), Str(ChannelJoin), None, Str(Mention(UserU)), None)
          EXCEPT !.ts = 40] >>

SenderlessHistory ==
    << [RawMessage(None, None, None, Str(<<"h", "i">>), None) EXCEPT !.ts = 40] >>

OtherHistory ==
    << [RawMessage(Str(UserU), None, None, Str(<<"h", "i">>),
          Str(<<RawFileWith(Str(P_JPG), None, Url("https://files/view/3"))>>))
          EXCEPT !.ts = 40] >>

\* body["event"] of an app_mention
EventTrigger(channel, user) ==
    [mode |-> "event", channel |-> channel, channel_name |-> <<>>, user |-> user,
     post |-> TRUE, keep |-> FALSE, json |-> FALSE]

\* sys.argv of slackless.py
CliTrigger(channel_name, post, keep, json) ==
    [mode |-> "cli", channel |-> "", channel_name |-> channel_name, user |-> <<>>,
     post |-> post, keep |-> keep, json |-> json]

EventTriggers == {EventTrigger(c, u) : c \in ChannelIds, u \in UserIds}
CliTriggers ==
    {CliTrigger(<<"G", "e", "n", "e", "r", "a", "l">>, post, keep, json) :
        post \in BOOLEAN, keep \in BOOLEAN, json \in BOOLEAN}
    \cup {CliTrigger(<<"n", "o", "n", "e">>, FALSE, FALSE, FALSE)}

NoDocument == [body |-> <<>>, staged |-> {}]

NoArch ==
    [channel_id |-> "", channel_name |-> <<>>, output_dir |-> <<>>,
     raw_history |-> <<>>, members |-> <<>>, user |-> <<>>, messages |-> <<>>,
     csv_filepath |-> <<>>, pdf_filepath |-> <<>>]

Init ==
    /\ history_of \in
        { [c \in ChannelIds |-> IF c = "C1" THEN h ELSE OtherHistory] :
            h \in {GoodHistory, SenderlessHistory, <<>>} }
    /\ trigger \in
        { [r \in Runs |-> IF r = 1 THEN t1 ELSE t2] :
            t1 \in {EventTrigger("C1", u) : u \in UserIds},
            t2 \in EventTriggers \cup CliTriggers }
    /\ run_pc = [r \in Runs |-> IF trigger[r].mode = "event" THEN "ack" ELSE "channel"]
    /\ arch = [r \in Runs |-> NoArch]
    /\ posted = [r \in Runs |-> <<>>]
    /\ rendered = [r \in Runs |-> NoDocument]
    /\ interference = {}
    /\ fs_dirs = {Cwd, OutputArg}
    /\ fs_files = <<>>
    /\ fs_before = NoFs
    /\ profiles = [id \in UserIds |-> "real_name"]
    /\ pc = "runs"
    /\ raised = ""
    /\ members = <<>>
    /\ messages = <<>>
    /\ IdleText /\ IdleDedup /\ IdleFetch /\ IdleHistory

idleInRuns ==
    <<pc, raised, members, raw_history, textVars, dedupVars, fetchVars, parseVars,
      fs_before, history_of, trigger>>

\* The run goes on to step next, or ends with the exception raised.
Goes(r, next) == run_pc' = [run_pc EXCEPT ![r] = next]
Fails(r) == run_pc' = [run_pc EXCEPT ![r] = "failed"]

\* The step after make_pdf, after the posts, and after cleanup.
AfterPosts(r) ==
    IF ~trigger[r].keep THEN "cleanup" ELSE IF trigger[r].json THEN "json" ELSE "done"
AfterPdf(r) == IF trigger[r].post THEN "post_csv" ELSE AfterPosts(r)
AfterCleanup(r) == IF trigger[r].json THEN "json" ELSE "done"

\* The files of others among the paths a step touches.
Touched(r, op, paths) ==
    { <<r, op, fs_files[f].by>> : f \in {x \in paths \cap DOMAIN fs_files : fs_files[x].by # r} }

\* run.py: client.chat_postMessage(channel=..., text=msg_txt)
Acknowledge(r) ==
    /\ run_pc[r] = "ack"
    /\ \/ posted' = [posted EXCEPT ![r] = Append(@, "ack")] /\ Goes(r, "channel")
       \/ UNCHANGED posted /\ Fails(r)
    /\ UNCHANGED <<arch, rendered, interference, fs_dirs, fs_files, idleInRuns>>

\* _set_channel_id, _set_channel_name and _set_output_dir
ResolveChannel(r) ==
    /\ run_pc[r] = "channel"
    /\ LET found == {c \in ChannelIds :
                        Lower(ChannelName(c)) = Lower(trigger[r].channel_name)}
           channel_id == IF trigger[r].mode = "event" THEN trigger[r].channel
                         ELSE CHOOSE c \in found : TRUE
           channel_name == IF trigger[r].mode = "event" THEN ChannelName(channel_id)
                           ELSE trigger[r].channel_name
       IN  \/ /\ trigger[r].mode = "cli" => found # {}
              /\ arch' = [arch EXCEPT ![r].channel_id = channel_id,
                                      ![r].channel_name = channel_name,
                                      ![r].output_dir =
                                        OutputDirOf(IF trigger[r].mode = "event"
                                                    THEN Cwd ELSE OutputArg,
                                                    channel_name)]
              /\ Goes(r, "history")
           \/ UNCHANGED arch /\ Fails(r)
    /\ UNCHANGED <<posted, rendered, interference, fs_dirs, fs_files, idleInRuns>>

\* self._raw_history = self._get_channel_history(self.channel_id), whose
\* paging SpecFetch follows call by call
GetChannelHistory(r) ==
    /\ run_pc[r] = "history"
    /\ \/ /\ arch' = [arch EXCEPT ![r].raw_history = history_of[arch[r].channel_id]]
          /\ Goes(r, "members")
       \/ UNCHANGED arch /\ Fails(r)
    /\ UNCHANGED <<posted, rendered, interference, fs_dirs, fs_files, idleInRuns>>

SetMembersOf(r) ==
    /\ run_pc[r] = "members"
    /\ arch' = [arch EXCEPT ![r].members = SetMembers(arch[r].raw_history, profiles)]
    /\ Goes(r, "user")
    /\ UNCHANGED <<posted, rendered, interference, fs_dirs, fs_files, idleInRuns>>

Login == <<"r", "o", "o", "t">>

\* _set_user (and _set_timestamp, which cannot fail): self.members[event["user"]]
SetUser(r) ==
    /\ run_pc[r] = "user"
    /\ IF trigger[r].mode = "event"
       THEN IF trigger[r].user \in DOMAIN arch[r].members
            THEN /\ arch' = [arch EXCEPT ![r].user = arch[r].members[trigger[r].user]]
                 /\ Goes(r, "messages")
            ELSE UNCHANGED arch /\ Fails(r)
       ELSE arch' = [arch EXCEPT ![r].user = Login] /\ Goes(r, "messages")
    /\ UNCHANGED <<posted, rendered, interference, fs_dirs, fs_files, idleInRuns>>

SetMessagesOf(r) ==
    /\ run_pc[r] = "messages"
    /\ LET result == SetMessages(arch[r].members, arch[r].output_dir, arch[r].raw_history)
       IN  IF result.raises = ""
           THEN arch' = [arch EXCEPT ![r].messages = result.value] /\ Goes(r, "download")
           ELSE UNCHANGED arch /\ Fails(r)
    /\ UNCHANGED <<posted, rendered, interference, fs_dirs, fs_files, idleInRuns>>

\* The file system after the first n steps of download_files.
RECURSIVE Staged(_, _, _, _)
Staged(fs, steps, r, kind) ==
    IF steps = <<>> THEN fs
    ELSE LET step == Head(steps)
         IN  Staged(
                IF step.op = "makedirs"
                THEN [fs EXCEPT !.dirs = MakeDirs(fs.dirs, step.path)]
                ELSE [fs EXCEPT !.files =
                        [f \in DOMAIN fs.files \cup {step.path} |->
                            IF f = step.path THEN [kind |-> kind, by |-> r]
                            ELSE fs.files[f]]],
                Tail(steps), r, kind)

\* arch.download_files(): every file staged, or requests.get raises at one
DownloadFiles(r) ==
    /\ run_pc[r] = "download"
    /\ LET steps == DownloadSteps(arch[r].messages)
       IN  \E n \in 0..Len(steps), kind \in {"image", "html"} :
            /\ n < Len(steps) => steps[n + 1].op = "get"
            /\ LET done == SubSeq(steps, 1, n)
                   fs == Staged([dirs |-> fs_dirs, files |-> fs_files], done, r, kind)
               IN  /\ fs_dirs' = fs.dirs
                   /\ fs_files' = fs.files
                   /\ interference' = interference \cup
                        Touched(r, "overwrote",
                                {done[i].path : i \in {j \in DOMAIN done : done[j].op = "get"}})
            /\ IF n = Len(steps) THEN Goes(r, "csv") ELSE Fails(r)
    /\ UNCHANGED <<arch, posted, rendered, idleInRuns>>

WriteFile(content, path, kind, r) ==
    [f \in DOMAIN content \cup {path} |->
        IF f = path THEN [kind |-> kind, by |-> r] ELSE content[f]]

\* arch.make_csv(): columns is bound inside the loop over the messages, so
\* with no message the file is opened and DictWriter raises.
MakeCsv(r) ==
    /\ run_pc[r] = "csv"
    /\ LET filepath_abs ==
            Append(arch[r].output_dir, arch[r].channel_name \o <<".", "c", "s", "v">>)
       IN  /\ fs_dirs' = MakeDirs(fs_dirs, arch[r].output_dir)
           /\ fs_files' = WriteFile(fs_files, filepath_abs, "csv", r)
           /\ interference' = interference \cup Touched(r, "overwrote", {filepath_abs})
           /\ IF Len(CsvRows(arch[r].messages)) > 0
              THEN /\ arch' = [arch EXCEPT ![r].csv_filepath = filepath_abs]
                   /\ Goes(r, "pdf")
              ELSE UNCHANGED arch /\ Fails(r)
    /\ UNCHANGED <<posted, rendered, idleInRuns>>

\* arch.make_pdf()
MakePdf(r) ==
    /\ run_pc[r] = "pdf"
    /\ LET filepath_abs ==
            Append(arch[r].output_dir, arch[r].channel_name \o <<".", "p", "d", "f">>)
           body == RenderMessages(arch[r].members, fs_files, arch[r].messages)
           images == UNION { { Append(arch[r].messages[k].file_dir,
                                     Format(_normalize_text(arch[r].members,
                                            arch[r].messages[k].files[i].filename, FALSE))) :
                                i \in {j \in DOMAIN body[k].attachments :
                                            body[k].attachments[j].embedded} }
                             : k \in DOMAIN body }
       IN  /\ rendered' = [rendered EXCEPT ![r] =
                [body |-> body,
                 staged |-> {f \in DOMAIN fs_files : fs_files[f].kind = "image"}]]
           /\ fs_dirs' = MakeDirs(fs_dirs, arch[r].output_dir)
           /\ fs_files' = WriteFile(fs_files, filepath_abs, "pdf", r)
           /\ interference' = interference
                \cup Touched(r, "overwrote", {filepath_abs})
                \cup Touched(r, "read", images)
           /\ arch' = [arch EXCEPT ![r].pdf_filepath = filepath_abs]
    /\ Goes(r, AfterPdf(r))
    /\ UNCHANGED <<posted, idleInRuns>>

\* arch.post(format): the upload, or URLError (the channel is told, then the
\* error is raised again) or SlackApiError (raised as it is).
Post(r, format, next) ==
    /\ run_pc[r] = "post_" \o format
    /\ LET fp == IF format = "csv" THEN arch[r].csv_filepath ELSE arch[r].pdf_filepath
       IN  interference' = interference \cup Touched(r, "read", {fp})
    /\ \/ posted' = [posted EXCEPT ![r] = Append(@, format)] /\ Goes(r, next)
       \/ posted' = [posted EXCEPT ![r] = Append(@, "error")] /\ Fails(r)
       \/ UNCHANGED posted /\ Fails(r)
    /\ UNCHANGED <<arch, rendered, fs_dirs, fs_files, idleInRuns>>

PostCsv(r) == Post(r, "csv", "post_pdf")
PostPdf(r) == Post(r, "pdf", AfterPosts(r))

\* arch.cleanup()
Cleanup(r) ==
    /\ run_pc[r] = "cleanup"
    /\ \E outcome \in CleanupOutcomes([dirs |-> fs_dirs, files |-> fs_files],
                                      arch[r].output_dir) :
        /\ fs_dirs' = outcome.fs.dirs
        /\ fs_files' = outcome.fs.files
        /\ interference' = interference \cup
                Touched(r, "deleted", DOMAIN fs_files \ DOMAIN outcome.fs.files)
        /\ IF outcome.raises = "" THEN Goes(r, AfterCleanup(r)) ELSE Fails(r)
    /\ UNCHANGED <<arch, posted, rendered, idleInRuns>>

\* slackless.py -json: json.dump(arch._raw_history.data, f)
WriteJson(r) ==
    /\ run_pc[r] = "json"
    /\ LET path == Append(arch[r].output_dir,
                          arch[r].channel_name \o <<".", "j", "s", "o", "n">>)
       IN  /\ fs_files' = WriteFile(fs_files, path, "json", r)
           /\ interference' = interference \cup Touched(r, "overwrote", {path})
    /\ Goes(r, "done")
    /\ UNCHANGED <<arch, posted, rendered, fs_dirs, idleInRuns>>

Next ==
    \E r \in Runs :
        \/ Acknowledge(r)
        \/ ResolveChannel(r)
        \/ GetChannelHistory(r)
        \/ SetMembersOf(r)
        \/ SetUser(r)
        \/ SetMessagesOf(r)
        \/ DownloadFiles(r)
        \/ MakeCsv(r)
        \/ MakePdf(r)
        \/ PostCsv(r)
        \/ PostPdf(r)
        \/ Cleanup(r)
        \/ WriteJson(r)

Spec == Init /\ [][Next]_vars

----------------------------------------------------------------------------
(* Claims about the runs (Spec) *)

HasRendered(r) == arch[r].pdf_filepath # <<>>
HasEnded(r) == run_pc[r] \in {"done", "failed"}

\* C7: make_pdf embeds an attachment as an image exactly when its filename has
\* a supported image extension and the file staged at staging_dir/filename
\* is readable as an image; otherwise it renders a link line with the text
\* "File: " + the filename and the attachment's display URL as its target.
C7_ImageEmbeddedElseFileLink ==
    \A r \in Runs : HasRendered(r) =>
        \A k \in DOMAIN arch[r].messages :
            \A i \in DOMAIN arch[r].messages[k].files :
                LET file == arch[r].messages[k].files[i]
                    staged == Append(arch[r].messages[k].file_dir, file.filename)
                IN  rendered[r].body[k].attachments[i] =
                        IF IsSupported(file.filename) /\ staged \in rendered[r].staged
                        THEN [embedded |-> TRUE, text |-> <<>>, link |-> None]
                        ELSE [embedded |-> FALSE, text |-> FileLabel \o file.filename,
                              link |-> file.url]

\* The run has its output directory and has not ended.
IsLive(r) == run_pc[r] \notin {"ack", "channel", "done", "failed"}

\* C8: two runs whose lifetimes overlap have distinct output directories (and
\* so distinct staging directories), and no step of a run overwrites, reads
\* or deletes a file the other run staged or rendered.
C8_RunsOwnTheirOutputDirectories ==
    /\ \A r1, r2 \in Runs :
        (r1 # r2 /\ IsLive(r1) /\ IsLive(r2)) => arch[r1].output_dir # arch[r2].output_dir
    /\ interference = {}

Has(q, x) == \E i \in DOMAIN q : q[i] = x

\* C10: a fatal error aborts the run: nothing is posted before both artifacts
\* were rendered from the whole history, and a run that has ended has posted
\* both artifacts or neither.
C10_FatalErrorPostsBothOrNeither ==
    \A r \in Runs :
        /\ (Has(posted[r], "csv") \/ Has(posted[r], "pdf")) =>
            /\ arch[r].csv_filepath # <<>>
            /\ arch[r].pdf_filepath # <<>>
            /\ Len(arch[r].messages) = Len(history_of[arch[r].channel_id])
        /\ Has(posted[r], "pdf") => Has(posted[r], "csv")
        /\ HasEnded(r) => (Has(posted[r], "csv") <=> Has(posted[r], "pdf"))

\* The user fields of the records of a history.
Authors(history) ==
    {history[i].user.value : i \in {j \in DOMAIN history : history[j].user # None}}

\* The steps of an event run up to _set_user, and the failed end.
UpToSetUser == {"ack", "channel", "history", "members", "user", "failed"}

\* C11: in event mode self.members has entries only for the user fields of
\* the fetched records and the triggering user's name is read from it; a run
\* gets past _set_user only if the triggering user is the user of a fetched
\* record; for any other triggering user the run, with the acknowledgement
\* posted and the history fetched, goes no further than _set_user: no message
\* is parsed, no file is written and no artifact is rendered or posted.
C11_TriggeringUserMustBeInHistory ==
    \A r \in Runs : trigger[r].mode = "event" =>
        LET authors == Authors(history_of[trigger[r].channel])
        IN  /\ DOMAIN arch[r].members \subseteq authors
            /\ arch[r].user # <<>> =>
                /\ trigger[r].user \in authors
                /\ arch[r].user = arch[r].members[trigger[r].user]
            /\ run_pc[r] = "user" =>
                /\ Has(posted[r], "ack")
                /\ arch[r].raw_history = history_of[trigger[r].channel]
            /\ trigger[r].user \notin authors =>
                /\ run_pc[r] \in UpToSetUser
                /\ arch[r].messages = <<>>
                /\ arch[r].csv_filepath = <<>> /\ arch[r].pdf_filepath = <<>>
                /\ rendered[r] = NoDocument
                /\ \A f \in DOMAIN fs_files : fs_files[f].by # r
                /\ ~Has(posted[r], "csv") /\ ~Has(posted[r], "pdf")

\* An event run of a user with no record in the fetched history has failed
\* in _set_user: acknowledged, history fetched, members built.
C11_StrangerRunFailed ==
    \E r \in Runs :
        /\ trigger[r].mode = "event"
        /\ trigger[r].user \notin Authors(history_of[trigger[r].channel])
        /\ run_pc[r] = "failed"
        /\ posted[r] = <<"ack">>
        /\ arch[r].raw_history # <<>>
        /\ DOMAIN arch[r].members # {}

====
